---------------------------- MODULE Spec2Model ----------------------------
(***************************************************************************)
(* Model of the tempreg sensor poller (src/main.go): the frame codec       *)
(* (WriteStrPort / ReadStrPort), the device session (getValue), the two    *)
(* retry loops (getSerialNumber / getMeasurement) and the scan scheduler   *)
(* (the main loop).                                                        *)
(*                                                                         *)
(* Strings are sequences of bytes (0..255).  Time is counted in ticks of   *)
(* the scheduler's 250 ms poll sleep.                                      *)
(***************************************************************************)
EXTENDS Integers, Sequences, FiniteSets, TLC

(* ------------------------------------------------------------------ *)
(* Program constants (src/main.go:26-37)                              *)
(* ------------------------------------------------------------------ *)
MAXNUMADR == 32
ACK == 6
NAK == 21
ETX == 3
TXBUFFLEN == 2200
RXBUFFLEN == 255

\* The zero time.Time: the value of lastScan and of every timestamp[i]
\* before their first assignment.  The clock starts after it.
ZeroTime == 0

(* ------------------------------------------------------------------ *)
(* Bounds of the model                                                *)
(* ------------------------------------------------------------------ *)
\* maxRetrys (main.go:58, 25 in the source) scaled down for checking.
maxRetrys == 2
\* Most scan cycles the main loop may start in one run (caps the
\* continuous mode numScans = 0 and repeated open failures).
MaxScans == 2

(* ------------------------------------------------------------------ *)
(* Bytes and the XOR checksum                                         *)
(* ------------------------------------------------------------------ *)
Byte == 0..255

RECURSIVE XorN(_, _, _)
XorN(a, b, n) ==
    IF n = 0 THEN 0
    ELSE (((a % 2) + (b % 2)) % 2) + (2 * XorN(a \div 2, b \div 2, n - 1))

\* Go's ^ on two bytes.
Xor(a, b) == XorN(a, b, 8)

RECURSIVE BccFrom(_, _, _)
BccFrom(s, i, acc) ==
    IF i > Len(s) THEN acc ELSE BccFrom(s, i + 1, Xor(acc, s[i]))

\* bcc := 0; for each byte: bcc ^= byte
Bcc(s) == BccFrom(s, 1, 0)

Min(a, b) == IF a < b THEN a ELSE b

(* ------------------------------------------------------------------ *)
(* The two commands, as ASCII                                         *)
(* ------------------------------------------------------------------ *)
\* "SN ?"
CmdSN == <<83, 78, 32, 63>>
\* "MEA CH 1 ?"
CmdMEA == <<77, 69, 65, 32, 67, 72, 32, 49, 32, 63>>

(* ------------------------------------------------------------------ *)
(* WriteStrPort: the request frame                                    *)
(* ------------------------------------------------------------------ *)
\* The bounds checks of WriteStrPort: a starts at 1 and a character is
\* refused when a >= TXBUFFLEN-2, so more than TXBUFFLEN-3 characters
\* overflow; the ETX and BCC checks can then never fire.
TxOverflow(chars) == Len(chars) > TXBUFFLEN - 3

\* txbuff[:a]: adr+0x80 (a byte addition), the characters, ETX, and the
\* XOR of the characters and ETX (the address byte is not summed).
EncodeFrame(chars, adr) ==
    <<(adr + 128) % 256>> \o chars \o <<ETX>> \o <<Xor(Bcc(chars), ETX)>>

\* What port.Write can answer.
TxOutcomes == {"ok", "fail", "short"}

\* WriteStrPort's error ("nil" for none).
WriteStrPortErr(chars, tx) ==
    IF TxOverflow(chars) THEN "overflow"
    ELSE IF tx = "fail" THEN "write"
    ELSE IF tx = "short" THEN "incomplete"
    ELSE "nil"

(* ------------------------------------------------------------------ *)
(* ReadStrPort: the response frame                                    *)
(* ------------------------------------------------------------------ *)
\* "SN001" and "23.5"
PaySN == <<83, 78, 48, 48, 49>>
PayVal == <<50, 51, 46, 53>>

\* A well-formed response: status, payload, ETX, XOR of all before.
GoodFrame(status, payload) ==
    LET body == <<status>> \o payload \o <<ETX>>
    IN  body \o <<Bcc(body)>>

\* The same frame with bit 0 of its second byte flipped on the line.
BadFrame(status, payload) ==
    LET f == GoodFrame(status, payload)
    IN  [i \in 1..Len(f) |-> IF i = 2 THEN Xor(f[i], 1) ELSE f[i]]

Rx(kind, bytes) == [kind |-> kind, bytes |-> bytes]

\* What port.Read can answer: a timeout, another error, or bytes.
RxOutcomes ==
    { Rx("timeout", <<>>), Rx("ioerr", <<>>), Rx("data", <<>>),
      Rx("data", GoodFrame(ACK, PaySN)),
      Rx("data", GoodFrame(ACK, PayVal)),
      Rx("data", GoodFrame(NAK, PayVal)),
      Rx("data", GoodFrame(NAK, <<>>)),
      Rx("data", GoodFrame(129, PaySN)),
      Rx("data", BadFrame(ACK, PayVal)) }

\* ReadStrPort as it would be if it returned the received bytes between
\* the first byte and the checksum as its string.
ReadStrPortKeepsPayload(rx) ==
    LET n == Min(Len(rx.bytes), RXBUFFLEN)
        result == SubSeq(rx.bytes, 1, n)
    IN  IF rx.kind = "timeout" THEN [status |-> 0, str |-> <<>>, err |-> "timeout"]
        ELSE IF rx.kind = "ioerr" THEN [status |-> 0, str |-> <<>>, err |-> "read"]
        ELSE IF n <= 0 THEN [status |-> 0, str |-> <<>>, err |-> "nodata"]
        ELSE IF Bcc(SubSeq(result, 1, n - 1)) # result[n]
             THEN [status |-> 0, str |-> <<>>, err |-> "bcc"]
        ELSE [status |-> IF n = 1 THEN 0 ELSE result[1],
              str |-> SubSeq(result, 2, n - 1), err |-> "nil"]

\* ReadStrPort with its checksum loop one byte short (n < iIn-2).
ReadStrPortShortSum(rx) ==
    LET n == Min(Len(rx.bytes), RXBUFFLEN)
        result == SubSeq(rx.bytes, 1, n)
    IN  IF rx.kind = "timeout" THEN [status |-> 0, str |-> <<>>, err |-> "timeout"]
        ELSE IF rx.kind = "ioerr" THEN [status |-> 0, str |-> <<>>, err |-> "read"]
        ELSE IF n <= 0 THEN [status |-> 0, str |-> <<>>, err |-> "nodata"]
        ELSE IF Bcc(SubSeq(result, 1, n - 2)) # result[n]
             THEN [status |-> 0, str |-> <<>>, err |-> "bcc"]
        ELSE [status |-> IF n = 1 THEN 0 ELSE result[1], str |-> <<>>, err |-> "nil"]

\* ReadStrPort: (first byte, string, error).  The string returned by the
\* source is always "" (main.go:434).
ReadStrPort(rx) ==
    LET n == Min(Len(rx.bytes), RXBUFFLEN)
        result == SubSeq(rx.bytes, 1, n)
    IN  IF rx.kind = "timeout" THEN [status |-> 0, str |-> <<>>, err |-> "timeout"]
        ELSE IF rx.kind = "ioerr" THEN [status |-> 0, str |-> <<>>, err |-> "read"]
        ELSE IF n <= 0 THEN [status |-> 0, str |-> <<>>, err |-> "nodata"]
        ELSE IF Bcc(SubSeq(result, 1, n - 1)) # result[n]
             THEN [status |-> 0, str |-> <<>>, err |-> "bcc"]
        ELSE \* result[n] := 0x00 before result[0] is returned
             [status |-> IF n = 1 THEN 0 ELSE result[1], str |-> <<>>, err |-> "nil"]

(* ------------------------------------------------------------------ *)
(* getValue's filter of the received string                           *)
(* ------------------------------------------------------------------ *)
\* unicode.IsPrint / unicode.IsSpace on rune(b), b a byte (Latin-1).
IsPrint(b) == (b >= 32 /\ b <= 126) \/ (b >= 161 /\ b # 173)
IsSpace(b) == (b >= 9 /\ b <= 13) \/ b = 32 \/ b = 133 \/ b = 160

RECURSIVE IndexByteFrom(_, _, _)
IndexByteFrom(s, c, i) ==
    IF i > Len(s) THEN 0
    ELSE IF s[i] = c THEN i
    ELSE IndexByteFrom(s, c, i + 1)

\* buf[:etxPos] when ETX occurs in buf.
TruncateAtETX(buf) ==
    LET p == IndexByteFrom(buf, ETX, 1)
    IN  IF p = 0 THEN buf ELSE SubSeq(buf, 1, p - 1)

RECURSIVE FilterFrom(_, _)
FilterFrom(buf, i) ==
    IF i > Len(buf) \/ buf[i] = ETX THEN <<>>
    ELSE IF IsPrint(buf[i]) \/ IsSpace(buf[i]) \/ buf[i] = 0
         THEN <<buf[i]>> \o FilterFrom(buf, i + 1)
    ELSE FilterFrom(buf, i + 1)

\* The result string getValue stores for a received bufStr.
FilterResult(bufStr) == FilterFrom(TruncateAtETX(bufStr), 1)


(* ------------------------------------------------------------------ *)
(* State                                                              *)
(* ------------------------------------------------------------------ *)
VARIABLES
    \* configuration, fixed once loadConfig has run
    scanAddress, numAdresses, numScans, minScanDelay,
    \* main: control point, numScansMain, lastScan, the clock, the scan
    \* cursor (global adrCounter) and the cursor of the database loop
    pc, numScansMain, lastScan, now, adrCounter, dbIdx,
    \* the global serialPort pointer and whether the OS port is open
    serialPort, portOpen,
    \* the per-device arrays
    retryCnt, serNoStr, valueStr, timestamp, msgSent, msgReceived, msgNAK,
    \* locals of the running command: err, portStatus; the last bytes
    \* handed to port.Write
    err, portStatus, txFrame,
    \* observers (not program state): whether the running command broke
    \* out of its loop on success, the device's reading fields when the
    \* command began, the getValue calls of the command and how many of
    \* them the device answered with a checksum-valid NAK, the commands
    \* invoked and the persistence calls made in the current cycle, the
    \* cycles started, whether the last open failed, and whether the
    \* cycle so far follows the end-to-end scenario
    succ, pre, attempts, nakSeen, cmdLog, dbCalls, scansStarted,
    openFailPending, e2e,
    \* the receive path on its own: the bytes put on the line and what
    \* ReadStrPort followed by getValue made of them
    cIn, cOut,
    \* observers of the bus and the port: what happened on the bus since
    \* the last successful send, the receives without a send since the
    \* last getValue call, for each writeToPostgres call of the current
    \* cycle whether it returned a non-zero status, the Close calls on
    \* the port opened last
    bus, dummies, dbRet, closeCalls,
    \* the signal goroutine: "wait" (blocked on the channel), "cleaned"
    \* (cleanup has run, os.Exit not yet), "done"
    sigPc

cfgVars == <<scanAddress, numAdresses, numScans, minScanDelay>>
mainVars == <<pc, numScansMain, lastScan, now, adrCounter, dbIdx>>
portVars == <<serialPort, portOpen>>
devVars == <<retryCnt, serNoStr, valueStr, timestamp, msgSent, msgReceived, msgNAK>>
cmdVars == <<err, portStatus, txFrame>>
obsVars == <<succ, pre, attempts, nakSeen, cmdLog, dbCalls, scansStarted,
             openFailPending, e2e>>
codecVars == <<cIn, cOut>>
ioVars == <<bus, dummies, dbRet, closeCalls>>
vars == <<cfgVars, mainVars, portVars, devVars, cmdVars, obsVars, codecVars,
          ioVars, sigPc>>

Idx == 0..(MAXNUMADR - 1)

\* The scanAddress array after extractAdresses stored `list`.
AdrArray(list) == [i \in Idx |-> IF i < Len(list) THEN list[i + 1] ELSE 0]

\* The configurations checked: address list, numberOfScans (0 is
\* continuous), minScanDelaySeconds in ticks.
Configs ==
    { [adr |-> <<1, 2>>, scans |-> 1, delay |-> 0],
      [adr |-> <<2>>, scans |-> 2, delay |-> 2],
      [adr |-> <<2>>, scans |-> 0, delay |-> 1],
      [adr |-> <<1, 40>>, scans |-> 1, delay |-> 0] }

Snapshot(i) == [ser |-> serNoStr[i], val |-> valueStr[i], ts |-> timestamp[i],
                nak |-> msgNAK[i]]

Init ==
    /\ \E c \in Configs :
          /\ scanAddress = AdrArray(c.adr)
          /\ numAdresses = Len(c.adr)
          /\ numScans = c.scans
          /\ minScanDelay = c.delay
          /\ numScansMain = c.scans
    /\ pc = "loop"
    /\ lastScan = ZeroTime
    /\ now = ZeroTime + 1
    /\ adrCounter = 0
    /\ dbIdx = 0
    /\ serialPort = "nil"
    /\ portOpen = FALSE
    /\ retryCnt = [i \in Idx |-> 0]
    /\ serNoStr = [i \in Idx |-> <<>>]
    /\ valueStr = [i \in Idx |-> <<>>]
    /\ timestamp = [i \in Idx |-> ZeroTime]
    /\ msgSent = [i \in Idx |-> 0]
    /\ msgReceived = [i \in Idx |-> 0]
    /\ msgNAK = [i \in Idx |-> 0]
    /\ err = "nil"
    /\ portStatus = 0
    /\ txFrame = <<>>
    /\ succ = FALSE
    /\ pre = [ser |-> <<>>, val |-> <<>>, ts |-> ZeroTime, nak |-> 0]
    /\ attempts = 0
    /\ nakSeen = 0
    /\ cmdLog = <<>>
    /\ dbCalls = <<>>
    /\ scansStarted = 0
    /\ openFailPending = FALSE
    /\ e2e = FALSE
    /\ cIn = [body |-> <<>>, idx |-> 0, bit |-> 0]
    /\ cOut = [status |-> 0, str |-> <<>>, err |-> "none"]
    /\ bus = "none"
    /\ dummies = 0
    /\ dbRet = <<>>
    /\ closeCalls = 0
    /\ sigPc = "wait"

(* ------------------------------------------------------------------ *)
(* The scan scheduler: main's loop                                    *)
(* ------------------------------------------------------------------ *)
\* for numScans == 0 || numScansMain > 0
LoopCond == numScans = 0 \/ numScansMain > 0

\* The delay test with its comparison turned around.
MustWaitInverted == lastScan # ZeroTime /\ now - lastScan > minScanDelay

\* time.Since(lastScan) < minScanDelay.  Since the zero time the
\* duration saturates at its maximum, which no delay exceeds.
MustWait == lastScan # ZeroTime /\ now - lastScan < minScanDelay

\* The loop condition fails: main returns and the process ends.
MainExit ==
    /\ pc = "loop"
    /\ ~LoopCond
    /\ pc' = "exited"
    /\ UNCHANGED ioVars
    /\ UNCHANGED <<sigPc, codecVars, cfgVars, numScansMain, lastScan, now, adrCounter, dbIdx,
                   portVars, devVars, cmdVars, obsVars>>

\* Too early for the next scan: sleep 250 ms and continue.
MainWait ==
    /\ pc = "loop"
    /\ LoopCond
    /\ MustWait
    /\ now' = now + 1
    /\ UNCHANGED ioVars
    /\ UNCHANGED <<sigPc, codecVars, cfgVars, pc, numScansMain, lastScan, adrCounter, dbIdx,
                   portVars, devVars, cmdVars, obsVars>>

\* if numScansMain > 0 { numScansMain-- }
Decrement(n) == IF n > 0 THEN n - 1 ELSE n

\* A scan cycle starts: the counter is decremented, then the port opens.
MainOpenOk ==
    /\ pc = "loop"
    /\ LoopCond
    /\ ~MustWait
    /\ scansStarted < MaxScans
    /\ numScansMain' = Decrement(numScansMain)
    /\ serialPort' = "port"
    /\ portOpen' = TRUE
    /\ pc' = "dummy"
    /\ scansStarted' = scansStarted + 1
    /\ openFailPending' = FALSE
    /\ cmdLog' = <<>>
    /\ dbCalls' = <<>>
    /\ e2e' = TRUE
    /\ dummies' = 0
    /\ dbRet' = <<>>
    /\ closeCalls' = 0
    /\ UNCHANGED bus
    /\ UNCHANGED <<sigPc, codecVars, cfgVars, lastScan, now, adrCounter, dbIdx, devVars, cmdVars,
                   succ, pre, attempts, nakSeen>>

\* The port does not open: openPort stores nil, main logs and continues.
MainOpenFail ==
    /\ pc = "loop"
    /\ LoopCond
    /\ ~MustWait
    /\ scansStarted < MaxScans
    /\ numScansMain' = Decrement(numScansMain)
    /\ serialPort' = "nil"
    /\ pc' = "loop"
    /\ scansStarted' = scansStarted + 1
    /\ openFailPending' = TRUE
    /\ cmdLog' = <<>>
    /\ dbCalls' = <<>>
    /\ e2e' = FALSE
    /\ dbRet' = <<>>
    /\ UNCHANGED <<bus, dummies, closeCalls>>
    /\ UNCHANGED <<sigPc, codecVars, cfgVars, lastScan, now, adrCounter, dbIdx, portOpen, devVars,
                   cmdVars, succ, pre, attempts, nakSeen>>

\* The bus observer after a receive: the first receive after a send
\* answers it, any further one is extra.
BusAfterRecv(b) ==
    IF b = "sent" THEN "answered"
    ELSE IF b = "answered" THEN "extra"
    ELSE b

\* What port.Write and port.Read can answer in the current state: on a
\* port that has been closed both only fail.
PortTx == IF portOpen THEN TxOutcomes ELSE {"fail"}
PortRx == IF portOpen THEN RxOutcomes ELSE {Rx("ioerr", <<>>)}

\* Where the address loop goes with its cursor at i, and lastScan after
\* it: lastScan = time.Now() once the loop is left.
AfterAdr(i) == IF i < numAdresses THEN "sn_begin" ELSE "db"
LastScanAfterAdr(i, t) == IF i < numAdresses THEN lastScan ELSE t

\* The dummy read of main; its result is dropped.  adrCounter = 0.
MainDummyRead ==
    /\ pc = "dummy"
    /\ \E rx \in PortRx :
          /\ ReadStrPort(rx).err \in STRING
          /\ adrCounter' = 0
          /\ pc' = AfterAdr(0)
          /\ lastScan' = LastScanAfterAdr(0, now)
          /\ dbIdx' = 0
    /\ bus' = BusAfterRecv(bus)
    /\ dummies' = dummies + 1
    /\ UNCHANGED <<dbRet, closeCalls>>
    /\ UNCHANGED <<sigPc, codecVars, cfgVars, numScansMain, now, portVars, devVars, cmdVars, obsVars>>

(* ------------------------------------------------------------------ *)
(* The retry loops: getSerialNumber and getMeasurement                *)
(* ------------------------------------------------------------------ *)
\* The branch a loop body takes on getValue's (portStatus, err).
\* getSerialNumber: err == nil && portStatus >= 0, else portStatus == NAK.
SnClass(e, st) ==
    IF e = "nil" /\ st >= 0 THEN "break"
    ELSE IF st = NAK THEN "nak"
    ELSE "other"

\* getMeasurement with the success test of getSerialNumber.
MeaClassLoose(e, st) ==
    IF e = "nil" /\ st >= 0 THEN "break"
    ELSE IF st = NAK THEN "nak"
    ELSE "other"

\* getMeasurement: err == nil && portStatus == ACK, else portStatus == NAK.
MeaClass(e, st) ==
    IF e = "nil" /\ st = ACK THEN "break"
    ELSE IF st = NAK THEN "nak"
    ELSE "other"

Class(kind, e, st) == IF kind = "SN" THEN SnClass(e, st) ELSE MeaClass(e, st)

\* for ; retryCnt[adrCounter] < maxRetrys ; ...
LoopPc(kind, rc) ==
    IF rc < maxRetrys
    THEN (IF kind = "SN" THEN "sn_send" ELSE "mea_send")
    ELSE (IF kind = "SN" THEN "sn_ret" ELSE "mea_ret")

RetPc(kind) == IF kind = "SN" THEN "sn_ret" ELSE "mea_ret"

\* The end-to-end scenario: the device at address 1 answers the serial
\* number query with "SN001" and the measurement query with ACK "23.5";
\* the device at address 2 only times out.
E2eRx(kind, rx) ==
    IF scanAddress[adrCounter] = 1
    THEN rx = Rx("data", GoodFrame(ACK, IF kind = "SN" THEN PaySN ELSE PayVal))
    ELSE rx.kind = "timeout"

\* One pass of a loop body after getValue returned (st, e): the branch
\* taken, the post statement retryCnt[adrCounter]++ unless the loop is
\* left by break, and the loop condition.
LoopBody(kind, e, st) ==
    LET c == Class(kind, e, st)
        rc == IF c = "break" THEN retryCnt[adrCounter] ELSE retryCnt[adrCounter] + 1
    IN  /\ err' = e
        /\ portStatus' = st
        /\ retryCnt' = [retryCnt EXCEPT ![adrCounter] = rc]
        /\ msgNAK' = IF c = "nak" THEN [msgNAK EXCEPT ![adrCounter] = @ + 1] ELSE msgNAK
        /\ timestamp' = IF kind = "MEA" /\ c = "break"
                        THEN [timestamp EXCEPT ![adrCounter] = now]
                        ELSE timestamp
        /\ succ' = (c = "break")
        /\ pc' = IF c = "break" THEN RetPc(kind) ELSE LoopPc(kind, rc)

\* getSerialNumber up to its loop: serNoStr[adrCounter] = "",
\* retryCnt[adrCounter] = 0.
GetSerialNumberBegin ==
    /\ pc = "sn_begin"
    /\ pre' = Snapshot(adrCounter)
    /\ serNoStr' = [serNoStr EXCEPT ![adrCounter] = <<>>]
    /\ retryCnt' = [retryCnt EXCEPT ![adrCounter] = 0]
    /\ err' = "nil"
    /\ portStatus' = 0
    /\ succ' = FALSE
    /\ attempts' = 0
    /\ nakSeen' = 0
    /\ cmdLog' = Append(cmdLog, <<"SN", adrCounter>>)
    /\ pc' = LoopPc("SN", 0)
    /\ UNCHANGED ioVars
    /\ UNCHANGED <<sigPc, codecVars, cfgVars, numScansMain, lastScan, now, adrCounter, dbIdx, portVars,
                   valueStr, timestamp, msgSent, msgReceived, msgNAK, txFrame,
                   dbCalls, scansStarted, openFailPending, e2e>>

\* getSerialNumber has returned err to main; getMeasurement begins.
GetMeasurementBegin ==
    /\ pc = "sn_ret"
    /\ pre' = Snapshot(adrCounter)
    /\ err' = "nil"
    /\ portStatus' = 0
    /\ succ' = FALSE
    /\ attempts' = 0
    /\ nakSeen' = 0
    /\ cmdLog' = Append(cmdLog, <<"MEA", adrCounter>>)
    /\ pc' = "mea_dummy"
    /\ UNCHANGED ioVars
    /\ UNCHANGED <<sigPc, codecVars, cfgVars, numScansMain, lastScan, now, adrCounter, dbIdx, portVars,
                   devVars, txFrame, dbCalls, scansStarted, openFailPending, e2e>>

\* The dummy read of getMeasurement; its result is dropped.  The loop
\* then starts from the retryCnt[adrCounter] getSerialNumber left.
GetMeasurementDummyRead ==
    /\ pc = "mea_dummy"
    /\ \E rx \in PortRx :
          /\ ReadStrPort(rx).err \in STRING
          /\ pc' = LoopPc("MEA", retryCnt[adrCounter])
    /\ bus' = BusAfterRecv(bus)
    /\ dummies' = dummies + 1
    /\ UNCHANGED <<dbRet, closeCalls>>
    /\ UNCHANGED <<sigPc, codecVars, cfgVars, numScansMain, lastScan, now, adrCounter, dbIdx, portVars,
                   devVars, cmdVars, obsVars>>

(* ------------------------------------------------------------------ *)
(* The device session: getValue                                       *)
(* ------------------------------------------------------------------ *)
CmdOf(kind) == IF kind = "SN" THEN CmdSN ELSE CmdMEA

\* *resultStr = "" (and later *resultStr = result.String())
SetResult(kind, str) ==
    IF kind = "SN"
    THEN /\ serNoStr' = [serNoStr EXCEPT ![adrCounter] = str]
         /\ valueStr' = valueStr
    ELSE /\ valueStr' = [valueStr EXCEPT ![adrCounter] = str]
         /\ serNoStr' = serNoStr

\* msgSent[adr]++ and msgReceived[adr]++ index arrays of MAXNUMADR
\* entries with the bus address: out of range, the runtime panics.
InRange(adr) == adr < MAXNUMADR

\* getValue with its read left out: the next call follows the write.
RecvPcSkipsRead(kind) == IF kind = "SN" THEN "sn_send" ELSE "mea_send"

\* After a successful write and the settle sleep getValue reads.
RecvPc(kind) == IF kind = "SN" THEN "sn_recv" ELSE "mea_recv"

\* getValue up to the settle sleep: clear the result, write the request.
\* A write error returns (0, err) to the loop body.
GetValueSend(kind) ==
    LET adr == scanAddress[adrCounter]
    IN  /\ pc = IF kind = "SN" THEN "sn_send" ELSE "mea_send"
        /\ \E tx \in PortTx :
              LET werr == WriteStrPortErr(CmdOf(kind), tx)
              IN  /\ txFrame' = IF werr = "overflow" THEN txFrame
                                ELSE EncodeFrame(CmdOf(kind), adr)
                  /\ attempts' = attempts + 1
                  /\ e2e' = (e2e /\ tx = "ok")
                  /\ bus' = IF werr = "nil" THEN "sent" ELSE bus
                  /\ IF werr # "nil"
                     THEN /\ SetResult(kind, <<>>)
                          /\ LoopBody(kind, werr, 0)
                          /\ UNCHANGED <<msgSent>>
                     ELSE IF ~InRange(adr)
                     THEN /\ SetResult(kind, <<>>)
                          /\ pc' = "panic"
                          /\ UNCHANGED <<msgSent, err, portStatus, retryCnt, msgNAK,
                                         timestamp, succ>>
                     ELSE /\ SetResult(kind, <<>>)
                          /\ msgSent' = [msgSent EXCEPT ![adr] = @ + 1]
                          /\ pc' = RecvPc(kind)
                          /\ UNCHANGED <<err, portStatus, retryCnt, msgNAK,
                                         timestamp, succ>>
        /\ dummies' = 0
        /\ UNCHANGED <<dbRet, closeCalls>>
        /\ UNCHANGED <<sigPc, codecVars, cfgVars, numScansMain, lastScan, now, adrCounter, dbIdx,
                       portVars, msgReceived, pre, nakSeen, cmdLog, dbCalls,
                       scansStarted, openFailPending>>

\* getValue after the settle sleep: read the response; on success count
\* it, filter bufStr into the result and return (readChar, nil).
GetValueRecv(kind) ==
    LET adr == scanAddress[adrCounter]
    IN  /\ pc = IF kind = "SN" THEN "sn_recv" ELSE "mea_recv"
        /\ \E rx \in PortRx :
              LET r == ReadStrPort(rx)
              IN  /\ e2e' = (e2e /\ E2eRx(kind, rx))
                  /\ nakSeen' = IF rx.kind = "data" /\ Len(rx.bytes) >= 2
                                   /\ rx.bytes[1] = NAK
                                   /\ Bcc(SubSeq(rx.bytes, 1, Len(rx.bytes) - 1))
                                        = rx.bytes[Len(rx.bytes)]
                                THEN nakSeen + 1 ELSE nakSeen
                  /\ IF r.err # "nil"
                     THEN /\ LoopBody(kind, r.err, 0)
                          /\ UNCHANGED <<msgReceived, serNoStr, valueStr>>
                     ELSE /\ msgReceived' = [msgReceived EXCEPT ![adr] = @ + 1]
                          /\ SetResult(kind, FilterResult(r.str))
                          /\ LoopBody(kind, "nil", r.status)
        /\ bus' = BusAfterRecv(bus)
        /\ UNCHANGED <<dummies, dbRet, closeCalls>>
        /\ UNCHANGED <<sigPc, codecVars, cfgVars, numScansMain, lastScan, now, adrCounter, dbIdx,
                       portVars, msgSent, txFrame, pre, attempts, cmdLog, dbCalls,
                       scansStarted, openFailPending>>

SnSend == GetValueSend("SN")
SnRecv == GetValueRecv("SN")
MeaSend == GetValueSend("MEA")
MeaRecv == GetValueRecv("MEA")

(* ------------------------------------------------------------------ *)
(* The rest of a scan cycle                                           *)
(* ------------------------------------------------------------------ *)
\* getMeasurement has returned: the 100 ms pacing sleep (the clock
\* advances), adrCounter++, and the loop condition.
MainNextAddress ==
    /\ pc = "mea_ret"
    /\ now' = now + 1
    /\ adrCounter' = adrCounter + 1
    /\ pc' = AfterAdr(adrCounter + 1)
    /\ lastScan' = LastScanAfterAdr(adrCounter + 1, now + 1)
    /\ dbIdx' = 0
    /\ UNCHANGED ioVars
    /\ UNCHANGED <<sigPc, codecVars, cfgVars, numScansMain, portVars, devVars, cmdVars, obsVars>>

\* What writeToPostgres can return.
DbStatuses == {0, 1, 2, 3, 4, 5}

\* The database loop as it would be if a non-zero status ended it.
MainWriteDbAbortsOnFailure ==
    /\ pc = "db"
    /\ dbIdx < numAdresses
    /\ \E status \in DbStatuses :
          /\ dbCalls' = Append(dbCalls, [pos |-> dbIdx, ser |-> serNoStr[dbIdx],
                                         val |-> valueStr[dbIdx], ts |-> timestamp[dbIdx]])
          /\ dbRet' = Append(dbRet, status # 0)
          /\ dbIdx' = IF status # 0 THEN numAdresses ELSE dbIdx + 1
    /\ UNCHANGED <<bus, dummies, closeCalls>>
    /\ UNCHANGED <<sigPc, codecVars, cfgVars, pc, numScansMain, lastScan, now, adrCounter, portVars,
                   devVars, cmdVars, succ, pre, attempts, nakSeen, cmdLog,
                   scansStarted, openFailPending, e2e>>

\* One pass of the database loop: writeToPostgres for position dbIdx;
\* a non-zero status is only logged.
MainWriteDb ==
    /\ pc = "db"
    /\ dbIdx < numAdresses
    /\ \E status \in DbStatuses :
          /\ dbCalls' = Append(dbCalls, [pos |-> dbIdx, ser |-> serNoStr[dbIdx],
                                         val |-> valueStr[dbIdx], ts |-> timestamp[dbIdx]])
          /\ dbRet' = Append(dbRet, status # 0)
    /\ dbIdx' = dbIdx + 1
    /\ UNCHANGED <<bus, dummies, closeCalls>>
    /\ UNCHANGED <<sigPc, codecVars, cfgVars, pc, numScansMain, lastScan, now, adrCounter, portVars,
                   devVars, cmdVars, succ, pre, attempts, nakSeen, cmdLog,
                   scansStarted, openFailPending, e2e>>

\* The end of the cycle without its Close call.
MainCloseKeepsOpen ==
    /\ pc = "db"
    /\ dbIdx >= numAdresses
    /\ pc' = "loop"
    /\ UNCHANGED ioVars
    /\ UNCHANGED <<sigPc, codecVars, cfgVars, numScansMain, lastScan, now, adrCounter, dbIdx,
                   portVars, devVars, cmdVars, obsVars>>

\* serialPort.Close() at the end of the cycle; the pointer is kept.
MainClose ==
    /\ pc = "db"
    /\ dbIdx >= numAdresses
    /\ portOpen' = FALSE
    /\ pc' = "loop"
    /\ closeCalls' = closeCalls + 1
    /\ UNCHANGED <<bus, dummies, dbRet>>
    /\ UNCHANGED <<sigPc, codecVars, cfgVars, numScansMain, lastScan, now, adrCounter, dbIdx,
                   serialPort, devVars, cmdVars, obsVars>>

Next ==
    \/ MainExit
    \/ MainWait
    \/ MainOpenOk
    \/ MainOpenFail
    \/ MainDummyRead
    \/ GetSerialNumberBegin
    \/ SnSend
    \/ SnRecv
    \/ GetMeasurementBegin
    \/ GetMeasurementDummyRead
    \/ MeaSend
    \/ MeaRecv
    \/ MainNextAddress
    \/ MainWriteDb
    \/ MainClose

Spec == Init /\ [][Next]_vars

(* ------------------------------------------------------------------ *)
(* The signal goroutine: <-signalChan; cleanup(); os.Exit(0)          *)
(* ------------------------------------------------------------------ *)
\* A signal arrives while the process runs and cleanup() executes:
\* if serialPort != nil, serialPort.Close(), which calls port.Close()
\* whenever sp.port != nil, and sp.port is never reset.  Nothing stops
\* the main goroutine meanwhile.
SigCleanup ==
    /\ sigPc = "wait"
    /\ pc \notin {"exited", "panic", "killed"}
    /\ sigPc' = "cleaned"
    /\ IF serialPort # "nil"
       THEN /\ portOpen' = FALSE
            /\ closeCalls' = closeCalls + 1
       ELSE UNCHANGED <<portOpen, closeCalls>>
    /\ UNCHANGED <<bus, dummies, dbRet>>
    /\ UNCHANGED <<codecVars, cfgVars, mainVars, serialPort, devVars, cmdVars, obsVars>>

\* os.Exit(0) ends the process wherever the main goroutine stands.
SigExit ==
    /\ sigPc = "cleaned"
    /\ sigPc' = "done"
    /\ pc' = "killed"
    /\ UNCHANGED ioVars
    /\ UNCHANGED <<codecVars, cfgVars, numScansMain, lastScan, now, adrCounter, dbIdx,
                   portVars, devVars, cmdVars, obsVars>>

NextSignal ==
    \/ Next
    \/ SigCleanup
    \/ SigExit

SpecSignal == Init /\ [][NextSignal]_vars

(* ------------------------------------------------------------------ *)
(* The receive path on its own                                        *)
(* ------------------------------------------------------------------ *)
\* getValue from its read on (main.go:515-546): (status, result string,
\* error) for what port.Read answered.
ReceivePath(rx) ==
    LET r == ReadStrPort(rx)
    IN  IF r.err # "nil"
        THEN [status |-> 0, str |-> <<>>, err |-> r.err]
        ELSE [status |-> r.status, str |-> FilterResult(r.str), err |-> "nil"]

\* Response bodies (all bytes before the checksum): framed ones (status,
\* payload, ETX) with "SN001", "23.5", "S 1", an empty payload and a
\* payload holding a BEL, and unframed ones.
CodecBodies ==
    { <<ACK>> \o PaySN \o <<ETX>>,
      <<ACK>> \o PayVal \o <<ETX>>,
      <<129, 83, 32, 49, ETX>>,
      <<NAK, ETX>>,
      <<1, 7, 66, ETX>>,
      <<ACK, 65>>,
      <<NAK>> }

\* The frame of a body: the body and the XOR of its bytes.
FrameOf(body) == body \o <<Bcc(body)>>

\* The frame with bit `bit` of byte `idx` flipped; idx = 0 flips nothing.
Flipped(f, idx, bit) ==
    [i \in 1..Len(f) |-> IF i = idx THEN Xor(f[i], 2 ^ bit) ELSE f[i]]

\* One response is put on the line, perhaps with one bit of a byte
\* before the checksum flipped, and goes through the receive path.
CodecRead ==
    /\ cOut.err = "none"
    /\ \E body \in CodecBodies, idx \in 0..7, bit \in 0..7 :
          /\ idx <= Len(body)
          /\ (idx = 0 => bit = 0)
          /\ cIn' = [body |-> body, idx |-> idx, bit |-> bit]
          /\ cOut' = ReceivePath(Rx("data", Flipped(FrameOf(body), idx, bit)))
    /\ UNCHANGED <<cfgVars, mainVars, portVars, devVars, cmdVars, obsVars,
                   ioVars, sigPc>>

SpecCodec == Init /\ [][CodecRead]_vars

(* ================================================================== *)
(* Claims                                                             *)
(* ================================================================== *)
InSn == pc \in {"sn_send", "sn_recv", "sn_ret"}
InMea == pc \in {"mea_send", "mea_recv", "mea_ret"}

\* The reading fields of the device the running command is about.
Reading(i) == [ser |-> serNoStr[i], val |-> valueStr[i], ts |-> timestamp[i]]
PreReading == [ser |-> pre.ser, val |-> pre.val, ts |-> pre.ts]

\* C1: retry property of the measurement command, whatever the serial
\* number command did before.  A device that answers NAK, NAK, ..., ACK
\* (the ACK at query N <= maxRetrys) is asked until it says ACK: the
\* command does not end unsuccessfully while every query it made was
\* answered by a valid NAK and fewer than maxRetrys queries were made;
\* and when it succeeds after N-1 NAKs the nak counter grew by N-1.
C1_Claim ==
    pc = "mea_ret" =>
        /\ (~succ /\ nakSeen = attempts) => attempts >= maxRetrys
        /\ (succ /\ nakSeen = attempts - 1) =>
               msgNAK[adrCounter] = pre.nak + attempts - 1

\* C2: the serial-number command does not accept a checksum-valid NAK:
\* every valid NAK answer is counted in the nak counter, and the command
\* succeeds only on a non-NAK status.
C2_Claim ==
    InSn => /\ msgNAK[adrCounter] = pre.nak + nakSeen
            /\ (succ => portStatus # NAK)

\* C3: a command that ends without a successful attempt returns a
\* non-nil error.
C3_Claim ==
    (pc \in {"sn_ret", "mea_ret"} /\ ~succ) => err # "nil"

\* C4: when a command ends without success, the device's serial-number
\* string, measurement string and timestamp equal their values from
\* before the command started.
C4_Unchanged ==
    (pc \in {"sn_ret", "mea_ret"} /\ ~succ) => Reading(adrCounter) = PreReading

\* C4 witness: a measurement command gave up after at least one query,
\* for a device that holds a reading of an earlier cycle.
C4_Witness ==
    /\ pc = "mea_ret" /\ ~succ /\ attempts >= 1
    /\ timestamp[adrCounter] # ZeroTime

\* C5: the timestamp changes, and the measurement loop ends as
\* succeeded, only in an attempt that returned no error and status ACK;
\* an attempt that returned anything else leaves the timestamp alone and
\* is followed by another attempt while retryCnt < maxRetrys.
C5_Strict ==
    [][ /\ (timestamp' # timestamp =>
               pc = "mea_recv" /\ err' = "nil" /\ portStatus' = ACK /\ succ'
                  /\ pc' = "mea_ret")
        /\ (pc \in {"mea_send", "mea_recv"} /\ pc' = "mea_ret" /\ succ' =>
               err' = "nil" /\ portStatus' = ACK)
        /\ (pc \in {"mea_send", "mea_recv"} /\ pc' \in {"mea_send", "mea_ret"}
               /\ ~(err' = "nil" /\ portStatus' = ACK) =>
               /\ timestamp' = timestamp
               /\ ~succ'
               /\ (retryCnt'[adrCounter] < maxRetrys => pc' = "mea_send"))
      ]_vars

\* C5 witness: a measurement succeeded at its second query, after a NAK.
C5_Witness ==
    /\ pc = "mea_ret" /\ succ /\ attempts >= 2 /\ nakSeen >= 1
    /\ portStatus = ACK /\ timestamp[adrCounter] = now

\* C6: while less than minScanDelay has passed since the last recorded
\* scan, an iteration of the scheduler opens nothing, sends and receives
\* nothing and leaves the counters and the remaining-scan counter alone;
\* a cycle starts only once minScanDelay has elapsed.
C6_MinInterval ==
    [][ /\ (pc = "loop" /\ LoopCond /\ lastScan # ZeroTime
               /\ now - lastScan < minScanDelay =>
               /\ pc' = "loop"
               /\ UNCHANGED <<serialPort, portOpen, msgSent, msgReceived, msgNAK,
                              numScansMain, txFrame, scansStarted, dbCalls, cmdLog>>)
        /\ (scansStarted' # scansStarted =>
               lastScan = ZeroTime \/ now - lastScan >= minScanDelay)
      ]_vars

\* C6 witness: the scheduler is waiting, part of the delay has passed.
C6_Witness ==
    /\ pc = "loop" /\ LoopCond /\ lastScan # ZeroTime
    /\ now > lastScan /\ now - lastScan < minScanDelay

\* The commands of a complete scan pass, in order.
ExpectedCmds ==
    [k \in 1..(2 * numAdresses) |->
        <<IF k % 2 = 1 THEN "SN" ELSE "MEA", (k - 1) \div 2>>]

\* C7: no device failure aborts the scan or the process: the process
\* never dies in a scan, and the persistence step is reached with both
\* commands invoked for every address in order.
C7_Claim ==
    /\ pc # "panic"
    /\ (pc = "db" => cmdLog = ExpectedCmds)

\* C8: at most N cycles are started for a scan count N > 0, and the
\* process never ends by itself: with the counter at zero it idles.
C8_Original ==
    /\ (numScans > 0 => scansStarted <= numScans)
    /\ pc # "exited"

\* C9: a failed open is followed by another open attempt, also with a
\* bounded scan count: after a failed open the loop is not over.
C9_Claim ==
    openFailPending => /\ pc # "exited"
                       /\ (pc = "loop" => LoopCond)

\* C10: in the end-to-end scenario (addresses 1 and 2, device 1 answers
\* "SN001" and ACK "23.5" at once, device 2 only times out) persistence
\* is called exactly once, for device 1 with ("SN001", "23.5", t).
C10_Claim ==
    (pc = "db" /\ dbIdx >= numAdresses /\ e2e /\ numAdresses = 2
        /\ scanAddress = AdrArray(<<1, 2>>)) =>
        /\ timestamp[0] # ZeroTime
        /\ dbCalls = << [pos |-> 0, ser |-> PaySN, val |-> PayVal,
                         ts |-> timestamp[0]] >>

\* A framed body: status, a payload of printable bytes, ETX.
Printable(b) == b >= 32 /\ b <= 126
Framed(body) ==
    /\ Len(body) >= 2
    /\ body[Len(body)] = ETX
    /\ \A i \in 2..(Len(body) - 1) : Printable(body[i])
PayloadOf(body) == SubSeq(body, 2, Len(body) - 1)

\* C11: a checksum-correct frame (status, printable payload, ETX,
\* checksum) is decoded by the receive path into its status byte and a
\* result string equal to the payload.
C11_Claim ==
    (cOut.err # "none" /\ cIn.idx = 0 /\ Framed(cIn.body)) =>
        /\ cOut.err = "nil"
        /\ cOut.status = cIn.body[1]
        /\ cOut.str = PayloadOf(cIn.body)

\* C12: a sequence of two or more bytes whose last byte is the XOR of
\* the others is accepted and its first byte returned as status; with
\* any single bit of any byte before the checksum flipped, the receive
\* path fails with the checksum error.
C12_Checksum ==
    cOut.err # "none" =>
        IF cIn.idx = 0
        THEN cOut.err = "nil" /\ cOut.status = cIn.body[1]
        ELSE cOut.err = "bcc" /\ cOut.status = 0 /\ cOut.str = <<>>

\* C12 witness: bit 7 of the last payload byte of a frame was flipped
\* and the frame was refused.
C12_Witness ==
    /\ cIn.body = <<ACK>> \o PayVal \o <<ETX>>
    /\ cIn.idx = 5 /\ cIn.bit = 7
    /\ cOut.err = "bcc"


(* ------------------------------------------------------------------ *)
(* C13 .. C20                                                         *)
(* ------------------------------------------------------------------ *)
\* The call writeToPostgres receives for position i from the arrays.
DbCallOf(i) == [pos |-> i, ser |-> serNoStr[i], val |-> valueStr[i],
                ts |-> timestamp[i]]

\* C13: once the address loop of a cycle that opened the port is over,
\* writeToPostgres is called once per configured position, in order,
\* with that position's serNoStr/valueStr/timestamp; whatever statuses
\* the calls returned, the loop goes on to the next position and, after
\* the last one, the port is closed and main is back at its loop.
C13_Persist ==
    /\ [](pc = "db" =>
            /\ Len(dbCalls) = dbIdx
            /\ Len(dbRet) = dbIdx
            /\ dbIdx <= numAdresses
            /\ \A k \in 1..Len(dbCalls) : dbCalls[k] = DbCallOf(k - 1))
    /\ [][pc = "db" =>
            (IF Len(dbCalls) < numAdresses
             THEN (/\ pc' = "db"
                   /\ dbCalls' = Append(dbCalls, DbCallOf(Len(dbCalls)))
                   /\ portOpen')
             ELSE (/\ pc' = "loop"
                   /\ ~portOpen'
                   /\ dbCalls' = dbCalls))]_vars

\* A cycle over two devices ended with the port closed although the
\* first of its two database calls returned a non-zero status.
C13_Witness ==
    /\ pc = "loop"
    /\ ~portOpen
    /\ Len(dbCalls) = 2
    /\ dbRet = <<TRUE, FALSE>>

\* C14: a command that ends without a successful attempt (serial number
\* or measurement) has issued exactly maxRetrys queries of its own.
C14_Claim ==
    (pc \in {"sn_ret", "mea_ret"} /\ ~succ) => attempts = maxRetrys

\* The configured positions other than the one being scanned.
OtherPositions == {j \in Idx : j < numAdresses /\ j # adrCounter}

\* C15: a send or receive of an exchange with the device at position
\* adrCounter completes, whatever its bus address, and leaves the sent,
\* received and nak counters of every other configured position alone.
C15_Claim ==
    [][(pc = "sn_send" \/ pc = "sn_recv" \/ pc = "mea_send" \/ pc = "mea_recv") =>
          (/\ pc' # "panic"
           /\ \A j \in OtherPositions :
                 (/\ msgSent'[j] = msgSent[j]
                  /\ msgReceived'[j] = msgReceived[j]
                  /\ msgNAK'[j] = msgNAK[j]))]_vars

\* A step in which a request frame was written completely.
SentStep == attempts' = attempts + 1 /\ bus' = "sent"

\* C16 as stated: exactly one receive lies between two successful
\* sends, so a send finds the bus either never used or answered once.
C16_Original == [][SentStep => bus \in {"none", "answered"}]_vars

\* C16: a request is never written while an earlier one is unanswered:
\* after a successful send the next bus operation is the receive of its
\* response, and only after that receive (and possibly dummy receives)
\* is another request written.
C16_HalfDuplex ==
    /\ [](bus = "sent" => pc \in {"sn_recv", "mea_recv", "panic"})
    /\ [][SentStep => bus # "sent"]_vars
    /\ [][(bus = "sent" /\ bus' # "sent") =>
             (pc \in {"sn_recv", "mea_recv"} /\ bus' = "answered")]_vars

\* The first measurement request is on the bus after the serial-number
\* response and the dummy receive of getMeasurement.
C16_Witness ==
    /\ pc = "mea_recv"
    /\ bus = "sent"
    /\ attempts = 1
    /\ dummies = 0
    /\ msgReceived[scanAddress[adrCounter]] > 0

\* C17: when the first serial-number query of a device is about to be
\* sent, exactly one receive without a send has been issued since the
\* last query.
C17_Claim ==
    (pc = "sn_send" /\ attempts = 0) => dummies = 1

\* C18: cleanup closes the port once when it is open and performs no
\* close when it is not.
C18_Claim ==
    [][(sigPc = "wait" /\ sigPc' = "cleaned") =>
          closeCalls' = IF portOpen THEN closeCalls + 1 ELSE closeCalls]_vars

\* Where main stands when its next step is a read or a write on the port.
IoPcs == {"dummy", "sn_send", "sn_recv", "mea_dummy", "mea_send", "mea_recv"}

\* C19: without a signal, the port is open whenever main reads or
\* writes, it is closed whenever main is at its loop head (so before
\* every open and after main returns), each opened port is closed once
\* and by the end of its own cycle, and every cycle that goes past the
\* loop head does so with a port it has just opened.
C19_Ownership ==
    /\ [](pc \in IoPcs => (portOpen /\ serialPort = "port"))
    /\ [](pc \in {"loop", "exited"} => ~portOpen)
    /\ [](closeCalls <= 1)
    /\ [][(portOpen /\ ~portOpen') => (pc = "db" /\ pc' = "loop" /\ closeCalls' = 1)]_vars
    /\ [][(pc = "db" /\ pc' = "loop") => (portOpen /\ ~portOpen')]_vars
    /\ [][(pc = "loop" /\ pc' \notin {"loop", "exited"}) =>
             (~portOpen /\ portOpen' /\ serialPort' = "port" /\ closeCalls' = 0)]_vars

\* A second cycle has opened its port after the first cycle exchanged
\* requests and closed its own.
C19_Witness ==
    /\ pc = "dummy"
    /\ portOpen
    /\ scansStarted = 2
    /\ closeCalls = 0
    /\ msgSent[scanAddress[0]] > 0
    /\ ~openFailPending

\* C20: once cleanup has run, main issues no read or write on the port
\* and opens no port: the only step left is the exit.
C20_Claim ==
    [][sigPc = "cleaned" =>
          (/\ (pc \in IoPcs => sigPc' = "done")
           /\ (pc = "loop" => (~portOpen' /\ scansStarted' = scansStarted)))]_vars

=============================================================================
